---- MODULE Spec2Model ----
(***************************************************************************)
(* Model of impl_deterministic_display_from_serde (src/src/serialization.rs):*)
(* the Display implementation that serializes `self` with serde_json and   *)
(* cleans the compact rendering up into an ID string.                      *)
(*                                                                         *)
(* A string is a sequence of one-character strings.  The Result chain of   *)
(* fmt (to_string, three map calls, map_err, `?`, fmt) is modelled one     *)
(* combinator per action, `pc` naming the combinator that runs next.       *)
(***************************************************************************)
EXTENDS Integers, Sequences, FiniteSets, TLC

VARIABLES value, pc, res, f, stderr, ret, ran

vars == <<value, pc, res, f, stderr, ret, ran>>

-----------------------------------------------------------------------------
(* Characters the transform or the serializer treats specially.            *)
Quote == "\""
Backslash == "\\"
Colon == ":"
Space == " "
LBrace == "{"
RBrace == "}"
LBracket == "["
RBracket == "]"
Comma == ","
Newline == "\n"
Tab == "\t"
Tilde == "~"
Underscore == "_"
Hyphen == "-"

-----------------------------------------------------------------------------
(* Bounds of the model.                                                    *)
MaxLen == 3
MaxItems == 2
MaxFields == 2

-----------------------------------------------------------------------------
(* str primitives used by the closures.                                    *)

\* str::starts_with(char)
StartsWith(s, c) == Len(s) > 0 /\ s[1] = c

\* str::ends_with(char)
EndsWith(s, c) == Len(s) > 0 /\ s[Len(s)] = c

\* s[lo..hi] panics when lo > hi or hi > s.len() (all characters modelled
\* are one byte wide, so every index is a character boundary).
SliceOutOfRange(s, lo, hi) == lo > hi \/ hi > Len(s)

\* s[lo..hi] for a range that is in bounds (zero-based, half-open).
Slice(s, lo, hi) == SubSeq(s, lo + 1, hi)

\* str::replace(from: char, to: &str)
RECURSIVE Replace(_, _, _)
Replace(s, from, to) ==
    IF s = <<>> THEN <<>>
    ELSE (IF Head(s) = from THEN to ELSE <<Head(s)>>) \o Replace(Tail(s), from, to)

-----------------------------------------------------------------------------
(* The three closures given to Result::map, and the one given to map_err.  *)

\* Mutant: only the leading quote is removed.
StripQuotes_LeadingOnly(s) ==
    IF StartsWith(s, Quote) /\ EndsWith(s, Quote)
    THEN Slice(s, 1, Len(s))
    ELSE s

\* "If string, remove surrounding quotes."
StripQuotes(s) ==
    IF StartsWith(s, Quote) /\ EndsWith(s, Quote)
    THEN Slice(s, 1, Len(s) - 1)
    ELSE s

\* The slice of StripQuotes is out of range: the closure panics.
StripQuotesPanics(s) ==
    /\ StartsWith(s, Quote)
    /\ EndsWith(s, Quote)
    /\ SliceOutOfRange(s, 1, Len(s) - 1)

\* Mutant: removes every brace of the string, not only the surrounding pair.
StripBraces_All(s) == Replace(Replace(s, LBrace, <<>>), RBrace, <<>>)

\* Mutant: unwraps brackets like braces.
StripBraces_Brackets(s) ==
    IF \/ StartsWith(s, LBrace) /\ EndsWith(s, RBrace)
       \/ StartsWith(s, LBracket) /\ EndsWith(s, RBracket)
    THEN Slice(s, 1, Len(s) - 1)
    ELSE s

\* Mutant: the quote strip is applied again to the unwrapped body.
StripBraces_ThenQuotes(s) ==
    IF StartsWith(s, LBrace) /\ EndsWith(s, RBrace)
    THEN StripQuotes(Slice(s, 1, Len(s) - 1))
    ELSE s

\* "If map, remove surrounding braces."
StripBraces(s) ==
    IF StartsWith(s, LBrace) /\ EndsWith(s, RBrace)
    THEN Slice(s, 1, Len(s) - 1)
    ELSE s

\* The slice of StripBraces is out of range: the closure panics.
StripBracesPanics(s) ==
    /\ StartsWith(s, LBrace)
    /\ EndsWith(s, RBrace)
    /\ SliceOutOfRange(s, 1, Len(s) - 1)

\* Mutant: the double quotes are kept.
Substitute_KeepQuotes(s) ==
    Replace(Replace(Replace(s, Backslash, <<Tilde>>),
                    Colon, <<Underscore>>),
            Space, <<Hyphen>>)

\* Mutant: a space is percent-encoded.
Substitute_PercentSpace(s) ==
    Replace(Replace(Replace(Replace(s, Backslash, <<Tilde>>),
                            Quote, <<>>),
                    Colon, <<Underscore>>),
            Space, <<"%", "2", "0">>)

\* "Replace special characters."
Substitute(s) ==
    Replace(Replace(Replace(Replace(s, Backslash, <<Tilde>>),
                            Quote, <<>>),
                    Colon, <<Underscore>>),
            Space, <<Hyphen>>)

\* Mutant: nothing is printed.
Diagnostic_Silent(type, e) == <<>>

\* What the eprintln! of the map_err closure appends to the error stream:
\* stringify!($type) and the Debug form of the serializer's error.
Diagnostic(type, e) == <<[type |-> type, cause |-> e]>>

\* The values fmt can return: std::fmt::Result is Result<(), std::fmt::Error>
\* and std::fmt::Error is a unit struct.
NotReturned == [kind |-> "none"]
FmtOk == [kind |-> "Ok"]
FmtError == [kind |-> "Err"]

\* Mutant: the error keeps the serializer's error.
MapErrValue_Carry(e) == [kind |-> "Err", cause |-> e]

\* The value of the map_err closure.
MapErrValue(e) == FmtError

-----------------------------------------------------------------------------
(* Result<String, E> as a record; the unused side holds a placeholder.     *)
NoCause == "none"
Ok(s) == [ok |-> TRUE, s |-> s, e |-> NoCause]
Err(e) == [ok |-> FALSE, s |-> <<>>, e |-> e]
Pending == [ok |-> FALSE, s |-> <<>>, e |-> "pending"]

-----------------------------------------------------------------------------
(* serde_json::to_string: the canonical form of a value and its compact    *)
(* rendering.  A canonical form is one of                                  *)
(*   [kind |-> "Text", text |-> string]                                    *)
(*   [kind |-> "Num", n |-> Nat]                                           *)
(*   [kind |-> "Seq", items |-> sequence of forms]                         *)
(*   [kind |-> "Map", fields |-> sequence of [key |-> string, val |-> form]]*)
(* A newtype renders as its content, a unit variant as Text(tag), a        *)
(* variant with payload as the one-field Map tag -> payload.               *)
Text(s) == [kind |-> "Text", text |-> s]
Num(n) == [kind |-> "Num", n |-> n]
SeqOf(items) == [kind |-> "Seq", items |-> items]
MapOf(fields) == [kind |-> "Map", fields |-> fields]
Field(k, v) == [key |-> k, val |-> v]

\* The escape of one character inside a JSON string.
EscapeChar(c) ==
    CASE c = Quote -> <<Backslash, Quote>>
      [] c = Backslash -> <<Backslash, Backslash>>
      [] c = Newline -> <<Backslash, "n">>
      [] c = Tab -> <<Backslash, "t">>
      [] OTHER -> <<c>>

\* The escaped content of a string (without the surrounding quotes).
RECURSIVE Escape(_)
Escape(x) == IF x = <<>> THEN <<>> ELSE EscapeChar(Head(x)) \o Escape(Tail(x))

\* The decimal digits of a natural number.
Digit(d) == CASE d = 0 -> "0" [] d = 1 -> "1" [] d = 2 -> "2" [] d = 3 -> "3"
              [] d = 4 -> "4" [] d = 5 -> "5" [] d = 6 -> "6" [] d = 7 -> "7"
              [] d = 8 -> "8" [] d = 9 -> "9"
RECURSIVE Digits(_)
Digits(n) == IF n < 10 THEN <<Digit(n)>> ELSE Digits(n \div 10) \o <<Digit(n % 10)>>

\* The compact rendering of a canonical form: {"k":v,"k":v}, [v,v], "...",
\* bare digits; the fields and items in the order the form holds them.
RECURSIVE Render(_), RenderItems(_), RenderFields(_)
Render(c) ==
    CASE c.kind = "Text" -> <<Quote>> \o Escape(c.text) \o <<Quote>>
      [] c.kind = "Num" -> Digits(c.n)
      [] c.kind = "Seq" -> <<LBracket>> \o RenderItems(c.items) \o <<RBracket>>
      [] c.kind = "Map" -> <<LBrace>> \o RenderFields(c.fields) \o <<RBrace>>
RenderItems(items) ==
    IF items = <<>> THEN <<>>
    ELSE Render(Head(items))
         \o (IF Len(items) > 1 THEN <<Comma>> ELSE <<>>)
         \o RenderItems(Tail(items))
RenderFields(fields) ==
    IF fields = <<>> THEN <<>>
    ELSE <<Quote>> \o Escape(Head(fields).key) \o <<Quote, Colon>>
         \o Render(Head(fields).val)
         \o (IF Len(fields) > 1 THEN <<Comma>> ELSE <<>>)
         \o RenderFields(Tail(fields))

\* A value to display: the type the macro was invoked for, and either its
\* canonical form or the error its Serialize implementation raises.
Serializable(type, c) == [type |-> type, fails |-> FALSE, cif |-> c, cause |-> NoCause]
Unserializable(type, e) == [type |-> type, fails |-> TRUE, cif |-> Num(0), cause |-> e]

\* serde_json::to_string(self)
SerdeToString(v) == IF v.fails THEN Err(v.cause) ELSE Ok(Render(v.cif))

-----------------------------------------------------------------------------
(* The values of the tests, and the bounded sets of further values.        *)
Example == <<"e", "x", "a", "m", "p", "l", "e">>
ExQuoteAmple == <<"e", "x", Quote, "a", "m", "p", "l", "e">>
TextWithNewlinesAndTabs ==
    <<"t", "e", "x", "t", Space, "w", "i", "t", "h", Space, Newline, Space,
      "n", "e", "w", "l", "i", "n", "e", "s", Space, "a", "n", "d", Space,
      Tab, Space, "t", "a", "b", "s">>
ValueOneTag == <<"v", "a", "l", "u", "e", "o", "n", "e">>
RenamedValueTag == <<"r", "e", "n", "a", "m", "e", "d", "_", "v", "a", "l", "u", "e">>
VariantATag == <<"V", "a", "r", "i", "a", "n", "t", "A">>
VariantBTag == <<"V", "a", "r", "i", "a", "n", "t", "B">>
VariantCTag == <<"V", "a", "r", "i", "a", "n", "t", "C">>
IdKey == <<"i", "d">>
NameKey == <<"n", "a", "m", "e">>
TestText == <<"t", "e", "s", "t">>
One == <<"o", "n", "e">>
Two == <<"t", "w", "o">>

ProductCodeExample == Serializable("ProductCode", Text(Example))
ProductCodeExQuoteAmple == Serializable("ProductCode", Text(ExQuoteAmple))
ProductCodeEmpty == Serializable("ProductCode", Text(<<>>))
ProductCodeSpecial == Serializable("ProductCode", Text(TextWithNewlinesAndTabs))
SimpleEnumValueOne == Serializable("SimpleEnum", Text(ValueOneTag))
SimpleEnumValueTwo == Serializable("SimpleEnum", Text(RenamedValueTag))
ComplexEnumVariantA == Serializable("ComplexEnum", Text(VariantATag))
ComplexEnumVariantB ==
    Serializable("ComplexEnum",
        MapOf(<<Field(VariantBTag,
                      MapOf(<<Field(IdKey, Num(42)), Field(NameKey, Text(TestText))>>))>>))
ComplexEnumVariantC ==
    Serializable("ComplexEnum",
        MapOf(<<Field(VariantCTag, SeqOf(<<Text(One), Text(Two)>>))>>))

TestValues ==
    {ProductCodeExample, ProductCodeExQuoteAmple, ProductCodeEmpty, ProductCodeSpecial,
     SimpleEnumValueOne, SimpleEnumValueTwo, ComplexEnumVariantA,
     ComplexEnumVariantB, ComplexEnumVariantC}

\* Sequences of at most n elements of A.
SeqsUpTo(A, n) == UNION {[1..k -> A] : k \in 0..n}

\* The characters of the strings a newtype wraps.
Alphabet == {"a", Quote, Backslash, Colon, Space, LBrace, RBrace, LBracket,
             Newline, Tab}
Strings == SeqsUpTo(Alphabet, MaxLen)

\* Scalars held by sequences and mappings.
Leaves == {Num(42), Text(<<"t">>), Text(<<Quote>>), Text(<<"}", "]">>)}

\* Field names: plain, with a space, with a colon.
Keys == {<<"k">>, <<"a", Space, "b">>, <<"c", Colon>>}

\* Sequences of at most n elements of S without repetition of an element.
Distinct(s) == \A i, j \in DOMAIN s : i # j => s[i] # s[j]
KeyLists == {ks \in SeqsUpTo(Keys, MaxFields) : Distinct(ks)}

SeqsOver(S) == {SeqOf(items) : items \in SeqsUpTo(S, MaxItems)}
MapsOver(S) ==
    UNION {{MapOf([i \in DOMAIN ks |-> Field(ks[i], vs[i])]) : vs \in [DOMAIN ks -> S]}
           : ks \in KeyLists}

\* Sequences and mappings of scalars, and one level of nesting around them:
\* a variant or one-field struct holding a payload, a list of one payload.
Flat == SeqsOver(Leaves) \cup MapsOver(Leaves)
Nested ==
    {MapOf(<<Field(k, p)>>) : k \in {VariantBTag, <<"k">>}, p \in Flat}
    \cup {SeqOf(<<p>>) : p \in Flat}

Causes == {"custom error", "key must be a string"}

Values ==
    TestValues
    \cup {Serializable("ProductCode", Text(x)) : x \in Strings}
    \cup {Serializable("Payload", c) : c \in Leaves \cup Flat \cup Nested}
    \cup {Unserializable(t, e) : t \in {"ProductCode", "ComplexEnum"}, e \in Causes}

-----------------------------------------------------------------------------
(* fmt, one Result combinator per step.                                    *)

Init ==
    /\ value \in Values
    /\ pc = "to_string"
    /\ res = Pending
    /\ f = <<>>
    /\ stderr = <<>>
    /\ ret = NotReturned
    /\ ran = {}

\* serde_json::to_string(self)
ToStringStep ==
    /\ pc = "to_string"
    /\ res' = SerdeToString(value)
    /\ pc' = "strip_quotes"
    /\ UNCHANGED <<value, f, stderr, ret, ran>>

\* .map(strip quotes): the closure runs on Ok only; its slice may panic.
MapStripQuotes ==
    /\ pc = "strip_quotes"
    /\ IF ~res.ok
       THEN /\ pc' = "strip_braces"
            /\ UNCHANGED <<res, ran>>
       ELSE /\ ran' = ran \cup {"strip_quotes"}
            /\ IF StripQuotesPanics(res.s)
               THEN pc' = "panicked" /\ UNCHANGED res
               ELSE pc' = "strip_braces" /\ res' = Ok(StripQuotes(res.s))
    /\ UNCHANGED <<value, f, stderr, ret>>

\* .map(strip braces)
MapStripBraces ==
    /\ pc = "strip_braces"
    /\ IF ~res.ok
       THEN /\ pc' = "substitute"
            /\ UNCHANGED <<res, ran>>
       ELSE /\ ran' = ran \cup {"strip_braces"}
            /\ IF StripBracesPanics(res.s)
               THEN pc' = "panicked" /\ UNCHANGED res
               ELSE pc' = "substitute" /\ res' = Ok(StripBraces(res.s))
    /\ UNCHANGED <<value, f, stderr, ret>>

\* .map(replace special characters)
MapSubstitute ==
    /\ pc = "substitute"
    /\ IF ~res.ok
       THEN UNCHANGED <<res, ran>>
       ELSE /\ ran' = ran \cup {"substitute"}
            /\ res' = Ok(Substitute(res.s))
    /\ pc' = "map_err"
    /\ UNCHANGED <<value, f, stderr, ret>>

\* .map_err(eprintln!, std::fmt::Error): the closure runs on Err only.
\* After it the error side of the Result is the unit std::fmt::Error.
MapErr ==
    /\ pc = "map_err"
    /\ IF res.ok
       THEN UNCHANGED <<res, stderr, ran>>
       ELSE /\ ran' = ran \cup {"map_err"}
            /\ stderr' = stderr \o Diagnostic(value.type, res.e)
            /\ res' = [res EXCEPT !.e = MapErrValue(res.e)]
    /\ pc' = "try"
    /\ UNCHANGED <<value, f, ret>>

\* Mutant: the error is swallowed and the default String is displayed.
QuestionMarkReturns_Swallow(r) == FALSE

\* `?` returns from fmt when the Result is an Err.
QuestionMarkReturns(r) == ~r.ok

\* `?`
Try ==
    /\ pc = "try"
    /\ IF QuestionMarkReturns(res)
       THEN ret' = res.e /\ pc' = "done"
       ELSE pc' = "fmt" /\ UNCHANGED ret
    /\ UNCHANGED <<value, res, f, stderr, ran>>

\* .fmt(f): String's Display writes the string to the formatter.
Fmt ==
    /\ pc = "fmt"
    /\ f' = f \o res.s
    /\ ret' = FmtOk
    /\ pc' = "done"
    /\ UNCHANGED <<value, res, stderr, ran>>

Next ==
    \/ ToStringStep
    \/ MapStripQuotes
    \/ MapStripBraces
    \/ MapSubstitute
    \/ MapErr
    \/ Try
    \/ Fmt

Spec == Init /\ [][Next]_vars

-----------------------------------------------------------------------------
(* The cleanup steps alone (the three map closures and the final fmt),     *)
(* applied to any string: the chain entered after to_string returned Ok(s).*)
AnyType == "Any"

InitCleanup ==
    /\ value = Serializable(AnyType, Num(0))
    /\ pc = "strip_quotes"
    /\ res \in {Ok(s) : s \in Strings}
    /\ f = <<>>
    /\ stderr = <<>>
    /\ ret = NotReturned
    /\ ran = {}

NextCleanup ==
    \/ MapStripQuotes
    \/ MapStripBraces
    \/ MapSubstitute
    \/ MapErr
    \/ Try
    \/ Fmt

SpecCleanup == InitCleanup /\ [][NextCleanup]_vars

-----------------------------------------------------------------------------
(* Reference definitions the properties are stated with.                   *)

\* The compact rendering of the value being displayed.
Rendering == Render(value.cif)

\* s without its first and its last character.
Inner(s) == [i \in 1..(Len(s) - 2) |-> s[i + 1]]

QuoteWrapped(s) == Len(s) >= 1 /\ s[1] = Quote /\ s[Len(s)] = Quote
BraceWrapped(s) == Len(s) >= 1 /\ s[1] = LBrace /\ s[Len(s)] = RBrace
BracketWrapped(s) == Len(s) >= 1 /\ s[1] = LBracket /\ s[Len(s)] = RBracket

\* The characters of s that are in C, in their order.
RECURSIVE Project(_, _)
Project(s, C) ==
    IF s = <<>> THEN <<>>
    ELSE (IF Head(s) \in C THEN <<Head(s)>> ELSE <<>>) \o Project(Tail(s), C)

\* The number of occurrences of c in s.
Count(s, c) == Cardinality({i \in DOMAIN s : s[i] = c})

\* One pass over an escaped string: backslash to tilde, quote deleted,
\* colon to underscore, space to hyphen.
SubstChar(c) ==
    CASE c = Backslash -> <<Tilde>>
      [] c = Quote -> <<>>
      [] c = Colon -> <<Underscore>>
      [] c = Space -> <<Hyphen>>
      [] OTHER -> <<c>>
RECURSIVE SubstEach(_)
SubstEach(s) == IF s = <<>> THEN <<>> ELSE SubstChar(Head(s)) \o SubstEach(Tail(s))

\* What one character of an unescaped string contributes to the display.
DisplayChar(c) ==
    CASE c = Quote -> <<Tilde>>
      [] c = Backslash -> <<Tilde, Tilde>>
      [] c = Newline -> <<Tilde, "n">>
      [] c = Tab -> <<Tilde, "t">>
      [] c = Colon -> <<Underscore>>
      [] c = Space -> <<Hyphen>>
      [] OTHER -> <<c>>
RECURSIVE DisplayText(_)
DisplayText(x) == IF x = <<>> THEN <<>> ELSE DisplayChar(Head(x)) \o DisplayText(Tail(x))

\* The display of a nested form: brackets and braces kept, fields and items
\* in their order, key_value for a field.
RECURSIVE DisplayForm(_), DisplayItems(_), DisplayFields(_)
DisplayForm(c) ==
    CASE c.kind = "Text" -> DisplayText(c.text)
      [] c.kind = "Num" -> Digits(c.n)
      [] c.kind = "Seq" -> <<LBracket>> \o DisplayItems(c.items) \o <<RBracket>>
      [] c.kind = "Map" -> <<LBrace>> \o DisplayFields(c.fields) \o <<RBrace>>
DisplayItems(items) ==
    IF items = <<>> THEN <<>>
    ELSE DisplayForm(Head(items))
         \o (IF Len(items) > 1 THEN <<Comma>> ELSE <<>>)
         \o DisplayItems(Tail(items))
DisplayFields(fields) ==
    IF fields = <<>> THEN <<>>
    ELSE DisplayText(Head(fields).key) \o <<Underscore>>
         \o DisplayForm(Head(fields).val)
         \o (IF Len(fields) > 1 THEN <<Comma>> ELSE <<>>)
         \o DisplayFields(Tail(fields))

Succeeds == ~value.fails
Displayed == Succeeds /\ pc = "done"
AfterQuoteStrip == Succeeds /\ pc = "strip_braces"
AfterBraceStrip == Succeeds /\ pc = "substitute"
ExpectedDiagnostic == <<[type |-> value.type, cause |-> value.cause]>>

VariantBDisplay ==
    VariantBTag \o <<"_", "{", "i", "d", "_", "4", "2", ",">>
    \o <<"n", "a", "m", "e", "_", "t", "e", "s", "t", "}">>
VariantCDisplay ==
    VariantCTag \o <<"_", "[", "o", "n", "e", ",", "t", "w", "o", "]">>
ExTildeAmple == <<"e", "x", "~", "a", "m", "p", "l", "e">>
SpecialDisplay ==
    <<"t", "e", "x", "t", "-", "w", "i", "t", "h", "-", "~", "n", "-",
      "n", "e", "w", "l", "i", "n", "e", "s", "-", "a", "n", "d", "-",
      "~", "t", "-", "t", "a", "b", "s">>
WrapBracedA == Serializable("ProductCode", Text(<<LBrace, "a", RBrace>>))

-----------------------------------------------------------------------------
(* C1: a rendering that starts and ends with a double quote loses exactly  *)
(* its first and last character in the quote-strip step, any other         *)
(* rendering is left unchanged by it; Wrap("example") displays as example, *)
(* Wrap("") as the empty string, a unit variant as its (renamed) tag.      *)
C1_QuoteStrip ==
    /\ AfterQuoteStrip =>
          /\ QuoteWrapped(Rendering) => res.s = Inner(Rendering)
          /\ ~QuoteWrapped(Rendering) => res.s = Rendering
    /\ Displayed =>
          /\ value = ProductCodeExample => f = Example
          /\ value = ProductCodeEmpty => f = <<>>
          /\ value = SimpleEnumValueOne => f = ValueOneTag
          /\ value = SimpleEnumValueTwo => f = RenamedValueTag
          /\ value = ComplexEnumVariantA => f = VariantATag

C1_Witness ==
    /\ AfterQuoteStrip
    /\ value = ProductCodeExample
    /\ QuoteWrapped(Rendering)
    /\ res.s = Example

(* C2: of a Mapping-shaped rendering only the outermost pair of braces is  *)
(* removed; the braces of nested mappings stay and the fields keep the     *)
(* order of the rendering; VariantB{id:42,name:"test"} displays as         *)
(* VariantB_{id_42,name_test}.                                             *)
C2_OuterBracesOnly ==
    (Succeeds /\ value.cif.kind = "Map") =>
        /\ pc = "substitute" => res.s = Inner(Rendering)
        /\ pc = "done" =>
              /\ f = DisplayFields(value.cif.fields)
              /\ Count(f, LBrace) = Count(Rendering, LBrace) - 1
              /\ Count(f, RBrace) = Count(Rendering, RBrace) - 1
              /\ value = ComplexEnumVariantB => f = VariantBDisplay

C2_Witness ==
    /\ Displayed
    /\ value = ComplexEnumVariantB
    /\ f = VariantBDisplay
    /\ Count(f, LBrace) = 1

(* C3: brackets are never stripped: a rendering that starts with [ and     *)
(* ends with ] passes both strip steps unchanged, and the brackets of any  *)
(* rendering appear unchanged and in the same relative position in the     *)
(* display; VariantC(["one","two"]) displays as VariantC_[one,two].        *)
C3_BracketsKept ==
    /\ (Succeeds /\ BracketWrapped(Rendering) /\ pc \in {"strip_braces", "substitute"})
          => res.s = Rendering
    /\ Displayed =>
          /\ Project(f, {LBracket, RBracket}) = Project(Rendering, {LBracket, RBracket})
          /\ value = ComplexEnumVariantC => f = VariantCDisplay

C3_Witness ==
    /\ AfterBraceStrip
    /\ value.cif.kind = "Seq"
    /\ Len(value.cif.items) = 2
    /\ res.s = Rendering
    /\ BracketWrapped(res.s)

(* C4: the display of a newtype around a string x that does not both start *)
(* with { and end with } is the escaped content of x with backslash turned *)
(* into ~, double quote deleted, colon into _ and space into -: a quote of *)
(* x contributes one ~, a newline ~n, a tab ~t, a space a hyphen.          *)
C4_NewtypeDisplay ==
    (Displayed /\ value.cif.kind = "Text"
       /\ ~(StartsWith(value.cif.text, LBrace) /\ EndsWith(value.cif.text, RBrace))) =>
        /\ f = SubstEach(Escape(value.cif.text))
        /\ f = DisplayText(value.cif.text)
        /\ Count(f, Quote) = 0
        /\ value = ProductCodeExQuoteAmple => f = ExTildeAmple
        /\ value = ProductCodeSpecial => f = SpecialDisplay

C4_Witness ==
    /\ Displayed
    /\ value = ProductCodeExQuoteAmple
    /\ f = ExTildeAmple

C6_ErrorCarriesCause ==
    (value.fails /\ pc = "done") => \E k \in DOMAIN ret : ret[k] = value.cause

(* C6 as amended: on serialization failure the returned error is the unit  *)
(* formatting error whatever the cause; the cause is in the diagnostic on  *)
(* the error stream only.                                                  *)
C6_UnitError ==
    (value.fails /\ pc = "done") =>
        /\ ret = FmtError
        /\ DOMAIN ret = {"kind"}
        /\ stderr = ExpectedDiagnostic

C6_Witness ==
    /\ value.fails
    /\ value.cause = "custom error"
    /\ pc = "done"
    /\ ret = FmtError
    /\ stderr[1].cause = "custom error"

C9_QuotesThenBraces ==
    /\ AfterBraceStrip =>
          /\ (QuoteWrapped(Rendering) /\ BraceWrapped(Inner(Rendering)))
                => res.s = Inner(Inner(Rendering))
          /\ (QuoteWrapped(Rendering) /\ ~BraceWrapped(Inner(Rendering)))
                => res.s = Inner(Rendering)
          /\ BraceWrapped(Rendering) => res.s = Inner(Rendering)
    /\ (Displayed /\ value = WrapBracedA) => f = <<"a">>

C9_Witness ==
    /\ AfterBraceStrip
    /\ BraceWrapped(Rendering)
    /\ QuoteWrapped(Inner(Rendering))
    /\ res.s = Inner(Rendering)
    /\ QuoteWrapped(res.s)

(* C10: the display of a serialized value holds no backslash, double       *)
(* quote, colon or space, is never longer than the rendering, and holds    *)
(* only characters of the rendering and ~, _ and -.                        *)
C10_NoSpecialChars ==
    Displayed =>
        /\ \A i \in DOMAIN f : f[i] \notin {Backslash, Quote, Colon, Space}
        /\ Len(f) <= Len(Rendering)
        /\ \A i \in DOMAIN f :
              \/ f[i] \in {Tilde, Underscore, Hyphen}
              \/ \E j \in DOMAIN Rendering : Rendering[j] = f[i]

C10_Witness ==
    /\ Displayed
    /\ value = ProductCodeSpecial
    /\ f = SpecialDisplay
    /\ Len(f) < Len(Rendering)

====
